---- MODULE Spec2Model ----
(***************************************************************************)
(* Hospital management API: the route handlers of patients, doctors,       *)
(* medicines, wards, doctor visits and medicine assignments over their     *)
(* MongoDB collections.                                                    *)
(*                                                                         *)
(* A collection is the sequence of its documents in insertion (natural)    *)
(* order.  Every `await` of a handler is one store step, so the handlers   *)
(* of concurrent requests interleave between their store calls.  A request *)
(* is received and runs up to the completion of its first store call in    *)
(* one step (nothing another request can observe lies in between).         *)
(***************************************************************************)
EXTENDS Integers, Sequences, FiniteSets, TLC

VARIABLES
    patients,   \* Patient collection
    doctors,    \* Doctor collection
    medicines,  \* Medicine collection
    assigned,   \* MedicineAssigned collection
    wards,      \* Ward collection
    visits,     \* DoctorVisit collection
    req,        \* per request slot: the handler's position, locals and response
    started,    \* number of requests received, counted against MaxOps
    oid,        \* last _id the store generated
    issued      \* history: the sequential ids ever given to a stored record, per type

vars == <<patients, doctors, medicines, assigned, wards, visits, req, started, oid, issued>>

-----------------------------------------------------------------------------
(* Bounds *)

\* Requests received in one run.
MaxOps == 4

\* Medicine-assignment requests received in one run.
MaxAssigns == 3

\* Requests received in one run over all the routes together.
MaxAll == 2

\* The request slots: at most this many handlers are in flight at once.
Reqs == {"r1", "r2"}

-----------------------------------------------------------------------------
(* Values *)

\* The result of a findOne / findById that matches nothing.
Null == [_id |-> 0]

\* A field the request body does not carry (destructured as undefined).
Undefined == "undefined"

Has(body, f) == f \in DOMAIN body

\* The users and employees on record; no modelled route changes them.
Users == << [_id |-> 101, id |-> 1] >>
Employees == << [_id |-> 201, id |-> 1], [_id |-> 202, id |-> 2] >>

BloodGroups == {"A+", "A-", "B+", "B-", "AB+", "AB-", "O+", "O-"}

EntityTypes == {"Patient", "Doctor", "Medicine"}

\* The roles of the callers of the routes behind `protect, admin`.
AdminCallers == {"admin", "doctor"}

\* authMiddleware.admin: lets the request through to the handler for the
\* admin role only; any other caller is answered Forbidden (401).
admin(role) == role = "admin"

\* The response of a route that refuses the caller's role, sent before the
\* handler reads the request.
Forbidden(op, role) ==
    [op |-> op, pc |-> "done", role |-> role, status |-> 401, err |-> "", data |-> 0]

-----------------------------------------------------------------------------
(* The store *)

Indices(coll) == 1..Len(coll)

Docs(coll) == {coll[i] : i \in Indices(coll)}

Ids(coll) == {coll[i].id : i \in Indices(coll)}

\* Model.findOne(filter): the first document in natural order among those
\* that match (hits: their indices).
FindOne(coll, hits) ==
    IF hits = {} THEN Null
    ELSE coll[CHOOSE i \in hits : \A j \in hits : i <= j]

\* Model.findOne({ id })
FindOneById(coll, id) == FindOne(coll, {i \in Indices(coll) : coll[i].id = id})

\* Model.findById(_id)
FindById(coll, key) == FindOne(coll, {i \in Indices(coll) : coll[i]._id = key})

RECURSIVE InsertDesc(_, _)
InsertDesc(doc, sorted) ==
    IF sorted = <<>> THEN <<doc>>
    ELSE IF doc.id >= Head(sorted).id THEN <<doc>> \o sorted
    ELSE <<Head(sorted)>> \o InsertDesc(doc, Tail(sorted))

RECURSIVE InsertAsc(_, _)
InsertAsc(doc, sorted) ==
    IF sorted = <<>> THEN <<doc>>
    ELSE IF doc.id <= Head(sorted).id THEN <<doc>> \o sorted
    ELSE <<Head(sorted)>> \o InsertAsc(doc, Tail(sorted))

\* .sort('-id'): descending by id.
RECURSIVE SortDescById(_)
SortDescById(coll) ==
    IF coll = <<>> THEN <<>>
    ELSE InsertDesc(Head(coll), SortDescById(Tail(coll)))

RECURSIVE SortAscById(_)
SortAscById(coll) ==
    IF coll = <<>> THEN <<>>
    ELSE InsertAsc(Head(coll), SortAscById(Tail(coll)))

\* Mutant of FindHighest: .sort('id') in place of .sort('-id').
FindLowest(coll) ==
    LET s == SortAscById(coll) IN IF s = <<>> THEN Null ELSE Head(s)

\* Model.findOne().sort('-id'): the document with the highest id, if any.
FindHighest(coll) ==
    LET s == SortDescById(coll) IN IF s = <<>> THEN Null ELSE Head(s)

\* const newId = highest ? highest.id + 1 : 1
NewId(highest) == IF highest # Null THEN highest.id + 1 ELSE 1

\* Mutant of DuplicateKey: the schema without `unique: true` on id.
NoUniqueIndex(coll, doc) == FALSE

\* The unique index on id (`unique: true`) rejects a second document with the id.
DuplicateKey(coll, doc) == doc.id \in Ids(coll)

\* Model.findOneAndDelete({ id }): removes the first document with the id.
RemoveById(coll, id) ==
    LET hits == {i \in Indices(coll) : coll[i].id = id}
    IN  IF hits = {} THEN coll
        ELSE LET k == CHOOSE i \in hits : \A j \in hits : i <= j
             IN  SubSeq(coll, 1, k - 1) \o SubSeq(coll, k + 1, Len(coll))

-----------------------------------------------------------------------------
(* Requests *)

Idle == [op |-> "none", pc |-> "idle"]

Free(r) == req[r].pc \in {"idle", "done"}

CanStart(r) == Free(r) /\ started < MaxOps

\* res.status(code).json(...): the handler's response; err is the caught error,
\* data the sequential id of the document returned (0: none).
Finish(e, code, err, data) ==
    [pc |-> "done", status |-> code, err |-> err, data |-> data] @@ e

Respond(r, code, err, data) == Finish(req[r], code, err, data)

\* A handler entered with its request: params.id, body, and no locals yet.
Enter(op, pc, id, body) ==
    [op |-> op, pc |-> pc, body |-> body, id |-> id, newId |-> 0]

-----------------------------------------------------------------------------
(* POST /api/patients *)

PatientBodies ==
    [userId : {1, 2}, doctorId : {1, 2}, bloodGroup : {"A+", "C+", Undefined}]

\* req.params.id of a ward request, and the wardId of a patient: the _id of
\* the first ward stored, and one of none.
WardKeys == {4, 9}

\* enum: ['pending', 'paid', 'partial']
PaymentStatuses == {"pending", "paid", "partial"}

\* The bodies of an admission: with or without a wardId, with or without a
\* paymentStatus.
AdmitBodies ==
    LET base == [userId |-> 1, doctorId |-> 1, bloodGroup |-> "A+"]
    IN  {base} \cup {base @@ [wardId |-> w] : w \in WardKeys}
               \cup {base @@ [paymentStatus |-> s] : s \in {"paid", "free"}}

\* The document Patient.create is given, with the schema defaults applied;
\* prescription is left out of the modelled bodies.
NewPatient(r) ==
    [_id |-> oid + 1, id |-> req[r].newId,
     userId |-> req[r].body.userId,
     doctorId |-> req[r].body.doctorId,
     bloodGroup |-> req[r].body.bloodGroup,
     prescription |-> Undefined,
     wardId |-> IF Has(req[r].body, "wardId") THEN req[r].body.wardId ELSE Undefined,
     paymentStatus |-> IF Has(req[r].body, "paymentStatus")
                       THEN req[r].body.paymentStatus ELSE "pending"]

\* Patient schema validation of a new document: bloodGroup is required and
\* one of its enumeration, paymentStatus is one of its enumeration.
PatientValid(doc) ==
    doc.bloodGroup \in BloodGroups /\ doc.paymentStatus \in PaymentStatuses

\* The handler's entry for a request whose body is one of bodies.
PostPatient_receive(r, bodies) ==
    /\ CanStart(r)
    /\ \E body \in bodies :
         LET user == FindOneById(Users, body.userId)
             e    == Enter("PostPatient", "findDoctor", 0, body)
         IN  req' = [req EXCEPT ![r] =
                       IF user = Null
                       THEN Finish(e, 404, "", 0)
                       ELSE e]
    /\ started' = started + 1
    /\ UNCHANGED <<patients, doctors, medicines, assigned, oid, issued, wards, visits>>

PostPatient_findUser(r) == PostPatient_receive(r, PatientBodies)

\* Create Patient as an admission.
PostPatient_admit(r) == PostPatient_receive(r, AdmitBodies)

\* Mutant of PostPatient_findDoctor: the doctor lookup's result is not tested.
PostPatient_skipDoctorCheck(r) ==
    /\ req[r].op = "PostPatient" /\ req[r].pc = "findDoctor"
    /\ req' = [req EXCEPT ![r] = [@ EXCEPT !.pc = "findHighest"]]
    /\ UNCHANGED <<patients, doctors, medicines, assigned, started, oid, issued, wards, visits>>

PostPatient_findDoctor(r) ==
    /\ req[r].op = "PostPatient" /\ req[r].pc = "findDoctor"
    /\ LET doctor == FindOneById(doctors, req[r].body.doctorId)
       IN  req' = [req EXCEPT ![r] =
                     IF doctor = Null
                     THEN Respond(r, 404, "", 0)
                     ELSE [@ EXCEPT !.pc = "findHighest"]]
    /\ UNCHANGED <<patients, doctors, medicines, assigned, started, oid, issued, wards, visits>>

PostPatient_findHighest(r) ==
    /\ req[r].op = "PostPatient" /\ req[r].pc = "findHighest"
    /\ req' = [req EXCEPT ![r] =
                 [@ EXCEPT !.pc = "create", !.newId = NewId(FindHighest(patients))]]
    /\ UNCHANGED <<patients, doctors, medicines, assigned, started, oid, issued, wards, visits>>

\* Mutant of PostPatient_create: the ward named by wardId gets one more occupant.
PostPatient_createAndOccupy(r) ==
    /\ req[r].op = "PostPatient" /\ req[r].pc = "create"
    /\ LET doc == NewPatient(r)
       IN  IF ~PatientValid(doc)
           THEN /\ req' = [req EXCEPT ![r] = Respond(r, 500, "ValidationError", 0)]
                /\ UNCHANGED <<patients, oid, issued, wards>>
           ELSE IF DuplicateKey(patients, doc)
           THEN /\ req' = [req EXCEPT ![r] = Respond(r, 500, "E11000", 0)]
                /\ UNCHANGED <<patients, oid, issued, wards>>
           ELSE /\ patients' = Append(patients, doc)
                /\ oid' = oid + 1
                /\ issued' = [issued EXCEPT !["Patient"] = @ \cup {doc.id}]
                /\ wards' = [i \in DOMAIN wards |->
                               IF wards[i]._id = doc.wardId
                               THEN [wards[i] EXCEPT !.currentOccupancy = @ + 1]
                               ELSE wards[i]]
                /\ req' = [req EXCEPT ![r] = Respond(r, 201, "", doc.id)]
    /\ UNCHANGED <<doctors, medicines, assigned, started, visits>>

PostPatient_create(r) ==
    /\ req[r].op = "PostPatient" /\ req[r].pc = "create"
    /\ LET doc == NewPatient(r)
       IN  IF ~PatientValid(doc)
           THEN /\ req' = [req EXCEPT ![r] = Respond(r, 500, "ValidationError", 0)]
                /\ UNCHANGED <<patients, oid, issued>>
           ELSE IF DuplicateKey(patients, doc)
           THEN /\ req' = [req EXCEPT ![r] = Respond(r, 500, "E11000", 0)]
                /\ UNCHANGED <<patients, oid, issued>>
           ELSE /\ patients' = Append(patients, doc)
                /\ oid' = oid + 1
                /\ issued' = [issued EXCEPT !["Patient"] = @ \cup {doc.id}]
                /\ req' = [req EXCEPT ![r] = Respond(r, 201, "", doc.id)]
    /\ UNCHANGED <<doctors, medicines, assigned, started, wards, visits>>

-----------------------------------------------------------------------------
(* PUT /api/patients/:id *)

TargetIds == {1, 2}

PatientUpdates ==
    {[prescription |-> "rx"]} \cup [prescription : {"rx"}, doctorId : {1, 2}]
                             \cup {[bloodGroup |-> "B+"], [bloodGroup |-> "C+"]}

PaymentUpdates == [paymentStatus : PaymentStatuses \cup {"free"}]

\* if (req.body.doctorId): absent and 0 are both falsy.
Truthy(body, f) == Has(body, f) /\ body[f] # 0

\* The update document applied to a stored one: the fields it carries are set.
ApplyUpdate(doc, body) ==
    [f \in DOMAIN doc |-> IF f \in DOMAIN body THEN body[f] ELSE doc[f]]

\* Mutant of UpdateById: updateMany with no filter in place of findOneAndUpdate.
UpdateEvery(coll, id, body) ==
    [i \in Indices(coll) |-> ApplyUpdate(coll[i], body)]

\* Model.findOneAndUpdate({ id }, body): the first document with the id, updated.
UpdateById(coll, id, body) ==
    LET hits == {i \in Indices(coll) : coll[i].id = id}
    IN  IF hits = {} THEN coll
        ELSE LET k == CHOOSE i \in hits : \A j \in hits : i <= j
             IN  [coll EXCEPT ![k] = ApplyUpdate(coll[k], body)]

\* Mutant of PutPatient_findPatient: the `if (!patient)` test is left out.
PutPatient_skipMissingCheck(r) ==
    /\ CanStart(r)
    /\ \E id \in TargetIds, body \in PatientUpdates :
         LET e == Enter("PutPatient", "update", id, body)
         IN  req' = [req EXCEPT ![r] =
                       IF Truthy(body, "doctorId")
                       THEN [e EXCEPT !.pc = "findDoctor"]
                       ELSE e]
    /\ started' = started + 1
    /\ UNCHANGED <<patients, doctors, medicines, assigned, oid, issued, wards, visits>>

\* The handler's entry for a request whose body is one of updates.
PutPatient_receive(r, updates) ==
    /\ CanStart(r)
    /\ \E id \in TargetIds, body \in updates :
         LET patient == FindOneById(patients, id)
             e       == Enter("PutPatient", "update", id, body)
         IN  req' = [req EXCEPT ![r] =
                       IF patient = Null THEN Finish(e, 404, "", 0)
                       ELSE IF Truthy(body, "doctorId")
                       THEN [e EXCEPT !.pc = "findDoctor"]
                       ELSE e]
    /\ started' = started + 1
    /\ UNCHANGED <<patients, doctors, medicines, assigned, oid, issued, wards, visits>>

PutPatient_findPatient(r) == PutPatient_receive(r, PatientUpdates)

\* Update Patient with a payment status.
PutPatient_pay(r) == PutPatient_receive(r, PaymentUpdates)

PutPatient_findDoctor(r) ==
    /\ req[r].op = "PutPatient" /\ req[r].pc = "findDoctor"
    /\ LET doctor == FindOneById(doctors, req[r].body.doctorId)
       IN  req' = [req EXCEPT ![r] =
                     IF doctor = Null
                     THEN Respond(r, 404, "", 0)
                     ELSE [@ EXCEPT !.pc = "update"]]
    /\ UNCHANGED <<patients, doctors, medicines, assigned, started, oid, issued, wards, visits>>

\* Mutant of PatientUpdateValid: findOneAndUpdate without runValidators.
PatientUpdateUnchecked(body) == TRUE

\* runValidators: true: the update validators of the paths the body sets.
PatientUpdateValid(body) ==
    /\ Has(body, "bloodGroup") => body.bloodGroup \in BloodGroups
    /\ Has(body, "paymentStatus") => body.paymentStatus \in PaymentStatuses

PutPatient_update(r) ==
    /\ req[r].op = "PutPatient" /\ req[r].pc = "update"
    /\ IF ~PatientUpdateValid(req[r].body)
       THEN /\ req' = [req EXCEPT ![r] = Respond(r, 500, "ValidationError", 0)]
            /\ UNCHANGED patients
       ELSE /\ patients' = UpdateById(patients, req[r].id, req[r].body)
            /\ req' = [req EXCEPT ![r] =
                         Respond(r, 200, "", IF req[r].id \in Ids(patients) THEN req[r].id ELSE 0)]
    /\ UNCHANGED <<doctors, medicines, assigned, started, oid, issued, wards, visits>>

-----------------------------------------------------------------------------
(* DELETE /api/patients/:id *)

DeletePatient_findPatient(r) ==
    /\ CanStart(r)
    /\ \E role \in AdminCallers :
         IF ~admin(role)
         THEN req' = [req EXCEPT ![r] = Forbidden("DeletePatient", role)]
         ELSE \E id \in TargetIds :
           LET patient == FindOneById(patients, id)
               e       == Enter("DeletePatient", "delete", id, [none |-> TRUE])
                            @@ [role |-> role]
           IN  req' = [req EXCEPT ![r] =
                         IF patient = Null THEN Finish(e, 404, "", 0)
                         ELSE e]
    /\ started' = started + 1
    /\ UNCHANGED <<patients, doctors, medicines, assigned, oid, issued, wards, visits>>

DeletePatient_delete(r) ==
    /\ req[r].op = "DeletePatient" /\ req[r].pc = "delete"
    /\ patients' = RemoveById(patients, req[r].id)
    /\ req' = [req EXCEPT ![r] = Respond(r, 200, "", 0)]
    /\ UNCHANGED <<doctors, medicines, assigned, started, oid, issued, wards, visits>>

-----------------------------------------------------------------------------
(* POST /api/doctors *)

DoctorBodies == [empId : {1, 2, 3}] \cup [empId : {1, 2, 3}, charges : {100}]

\* Doctor schema validation of a new document: charges is required.
DoctorValid(body) == Has(body, "charges")

PostDoctor_findEmployee(r) ==
    /\ CanStart(r)
    /\ \E role \in AdminCallers :
         IF ~admin(role)
         THEN req' = [req EXCEPT ![r] = Forbidden("PostDoctor", role)]
         ELSE \E body \in DoctorBodies :
           LET employee == FindOneById(Employees, body.empId)
               e        == Enter("PostDoctor", "findDoctor", 0, body)
                             @@ [role |-> role]
           IN  req' = [req EXCEPT ![r] =
                         IF employee = Null THEN Finish(e, 404, "", 0)
                         ELSE e]
    /\ started' = started + 1
    /\ UNCHANGED <<patients, doctors, medicines, assigned, oid, issued, wards, visits>>

\* Mutant of PostDoctor_findDoctor: the doctorExists test is left out.
PostDoctor_skipExistsCheck(r) ==
    /\ req[r].op = "PostDoctor" /\ req[r].pc = "findDoctor"
    /\ req' = [req EXCEPT ![r] = [@ EXCEPT !.pc = "findHighest"]]
    /\ UNCHANGED <<patients, doctors, medicines, assigned, started, oid, issued, wards, visits>>

PostDoctor_findDoctor(r) ==
    /\ req[r].op = "PostDoctor" /\ req[r].pc = "findDoctor"
    /\ LET doctorExists == FindOne(doctors, {i \in Indices(doctors) : doctors[i].empId = req[r].body.empId})
       IN  req' = [req EXCEPT ![r] =
                     IF doctorExists # Null
                     THEN Respond(r, 400, "", 0)
                     ELSE [@ EXCEPT !.pc = "findHighest"]]
    /\ UNCHANGED <<patients, doctors, medicines, assigned, started, oid, issued, wards, visits>>

PostDoctor_findHighest(r) ==
    /\ req[r].op = "PostDoctor" /\ req[r].pc = "findHighest"
    /\ req' = [req EXCEPT ![r] =
                 [@ EXCEPT !.pc = "create", !.newId = NewId(FindHighest(doctors))]]
    /\ UNCHANGED <<patients, doctors, medicines, assigned, started, oid, issued, wards, visits>>

PostDoctor_create(r) ==
    /\ req[r].op = "PostDoctor" /\ req[r].pc = "create"
    /\ IF ~DoctorValid(req[r].body)
       THEN /\ req' = [req EXCEPT ![r] = Respond(r, 500, "ValidationError", 0)]
            /\ UNCHANGED <<doctors, oid, issued>>
       ELSE LET doc == [_id |-> oid + 1, id |-> req[r].newId,
                        empId |-> req[r].body.empId, charges |-> req[r].body.charges]
            IN  IF DuplicateKey(doctors, doc)
                THEN /\ req' = [req EXCEPT ![r] = Respond(r, 500, "E11000", 0)]
                     /\ UNCHANGED <<doctors, oid, issued>>
                ELSE /\ doctors' = Append(doctors, doc)
                     /\ oid' = oid + 1
                     /\ issued' = [issued EXCEPT !["Doctor"] = @ \cup {doc.id}]
                     /\ req' = [req EXCEPT ![r] = Respond(r, 201, "", doc.id)]
    /\ UNCHANGED <<patients, medicines, assigned, started, wards, visits>>

-----------------------------------------------------------------------------
(* PUT /api/doctors/:id *)

\* req.body is handed to findOneAndUpdate as it comes: besides charges it may
\* carry empId or id.
DoctorUpdates ==
    {[charges |-> 200]} \cup [charges : {200}, empId : {1, 2}]
                       \cup [charges : {200}, id : {3}]

PutDoctor_findDoctor(r) ==
    /\ CanStart(r)
    /\ \E role \in AdminCallers :
         IF ~admin(role)
         THEN req' = [req EXCEPT ![r] = Forbidden("PutDoctor", role)]
         ELSE \E id \in TargetIds, body \in DoctorUpdates :
           LET doctor == FindOneById(doctors, id)
               e      == Enter("PutDoctor", "update", id, body) @@ [role |-> role]
           IN  req' = [req EXCEPT ![r] =
                         IF doctor = Null THEN Finish(e, 404, "", 0)
                         ELSE e]
    /\ started' = started + 1
    /\ UNCHANGED <<patients, doctors, medicines, assigned, oid, issued, wards, visits>>

PutDoctor_update(r) ==
    /\ req[r].op = "PutDoctor" /\ req[r].pc = "update"
    /\ LET target  == FindOneById(doctors, req[r].id)
           updated == ApplyUpdate(target, req[r].body)
       IN  IF target # Null /\ updated.id # target.id /\ DuplicateKey(doctors, updated)
           THEN /\ req' = [req EXCEPT ![r] = Respond(r, 500, "E11000", 0)]
                /\ UNCHANGED doctors
           ELSE /\ doctors' = UpdateById(doctors, req[r].id, req[r].body)
                /\ req' = [req EXCEPT ![r] =
                             Respond(r, 200, "", IF target # Null THEN updated.id ELSE 0)]
    /\ UNCHANGED <<patients, medicines, assigned, started, oid, issued, wards, visits>>

-----------------------------------------------------------------------------
(* DELETE /api/doctors/:id *)

DeleteDoctor_findDoctor(r) ==
    /\ CanStart(r)
    /\ \E role \in AdminCallers :
         IF ~admin(role)
         THEN req' = [req EXCEPT ![r] = Forbidden("DeleteDoctor", role)]
         ELSE \E id \in TargetIds :
           LET doctor == FindOneById(doctors, id)
               e      == Enter("DeleteDoctor", "delete", id, [none |-> TRUE])
                           @@ [role |-> role]
           IN  req' = [req EXCEPT ![r] =
                         IF doctor = Null THEN Finish(e, 404, "", 0)
                         ELSE e]
    /\ started' = started + 1
    /\ UNCHANGED <<patients, doctors, medicines, assigned, oid, issued, wards, visits>>

DeleteDoctor_delete(r) ==
    /\ req[r].op = "DeleteDoctor" /\ req[r].pc = "delete"
    /\ doctors' = RemoveById(doctors, req[r].id)
    /\ req' = [req EXCEPT ![r] = Respond(r, 200, "", 0)]
    /\ UNCHANGED <<patients, medicines, assigned, started, oid, issued, wards, visits>>

-----------------------------------------------------------------------------
(* POST /api/medicines, PUT and DELETE /api/medicines/:id *)

MedicineBodies == {[name |-> "m"], [name |-> "m", price |-> 10]}

\* Medicine schema validation of a new document: name and price are required.
MedicineValid(body) == Has(body, "name") /\ Has(body, "price")

PostMedicine_findHighest(r) ==
    /\ CanStart(r)
    /\ \E role \in AdminCallers :
         IF ~admin(role)
         THEN req' = [req EXCEPT ![r] = Forbidden("PostMedicine", role)]
         ELSE \E body \in MedicineBodies :
           LET e == Enter("PostMedicine", "create", 0, body) @@ [role |-> role]
           IN  req' = [req EXCEPT ![r] =
                         [e EXCEPT !.newId = NewId(FindHighest(medicines))]]
    /\ started' = started + 1
    /\ UNCHANGED <<patients, doctors, medicines, assigned, oid, issued, wards, visits>>

PostMedicine_create(r) ==
    /\ req[r].op = "PostMedicine" /\ req[r].pc = "create"
    /\ IF ~MedicineValid(req[r].body)
       THEN /\ req' = [req EXCEPT ![r] = Respond(r, 500, "ValidationError", 0)]
            /\ UNCHANGED <<medicines, oid, issued>>
       ELSE LET doc == [_id |-> oid + 1, id |-> req[r].newId,
                        name |-> req[r].body.name, price |-> req[r].body.price]
            IN  IF DuplicateKey(medicines, doc)
                THEN /\ req' = [req EXCEPT ![r] = Respond(r, 500, "E11000", 0)]
                     /\ UNCHANGED <<medicines, oid, issued>>
                ELSE /\ medicines' = Append(medicines, doc)
                     /\ oid' = oid + 1
                     /\ issued' = [issued EXCEPT !["Medicine"] = @ \cup {doc.id}]
                     /\ req' = [req EXCEPT ![r] = Respond(r, 201, "", doc.id)]
    /\ UNCHANGED <<patients, doctors, assigned, started, wards, visits>>

MedicineUpdates == {[price |-> 20], [name |-> "n"]}

PutMedicine_findMedicine(r) ==
    /\ CanStart(r)
    /\ \E role \in AdminCallers :
         IF ~admin(role)
         THEN req' = [req EXCEPT ![r] = Forbidden("PutMedicine", role)]
         ELSE \E id \in TargetIds, body \in MedicineUpdates :
           LET medicine == FindOneById(medicines, id)
               e        == Enter("PutMedicine", "update", id, body) @@ [role |-> role]
           IN  req' = [req EXCEPT ![r] =
                         IF medicine = Null THEN Finish(e, 404, "", 0)
                         ELSE e]
    /\ started' = started + 1
    /\ UNCHANGED <<patients, doctors, medicines, assigned, oid, issued, wards, visits>>

PutMedicine_update(r) ==
    /\ req[r].op = "PutMedicine" /\ req[r].pc = "update"
    /\ medicines' = UpdateById(medicines, req[r].id, req[r].body)
    /\ req' = [req EXCEPT ![r] =
                 Respond(r, 200, "", IF req[r].id \in Ids(medicines) THEN req[r].id ELSE 0)]
    /\ UNCHANGED <<patients, doctors, assigned, started, oid, issued, wards, visits>>

DeleteMedicine_findMedicine(r) ==
    /\ CanStart(r)
    /\ \E role \in AdminCallers :
         IF ~admin(role)
         THEN req' = [req EXCEPT ![r] = Forbidden("DeleteMedicine", role)]
         ELSE \E id \in TargetIds :
           LET medicine == FindOneById(medicines, id)
               e        == Enter("DeleteMedicine", "delete", id, [none |-> TRUE])
                             @@ [role |-> role]
           IN  req' = [req EXCEPT ![r] =
                         IF medicine = Null THEN Finish(e, 404, "", 0)
                         ELSE e]
    /\ started' = started + 1
    /\ UNCHANGED <<patients, doctors, medicines, assigned, oid, issued, wards, visits>>

DeleteMedicine_delete(r) ==
    /\ req[r].op = "DeleteMedicine" /\ req[r].pc = "delete"
    /\ medicines' = RemoveById(medicines, req[r].id)
    /\ req' = [req EXCEPT ![r] = Respond(r, 200, "", 0)]
    /\ UNCHANGED <<patients, doctors, assigned, started, oid, issued, wards, visits>>

-----------------------------------------------------------------------------
(* POST api/medicinesassigned *)

\* A quantity as the body parsers deliver it: a JSON number, or the string of
\* a numeral (a urlencoded body, or a quoted JSON value); check(...).isNumeric()
\* admits both.  v is the number the value denotes.
Num(v) == [t |-> "number", v |-> v]
Str(v) == [t |-> "string", v |-> v]

Quantities == {Num(3), Num(4), Num(0), Num(-5), Str(4)}

Roles == {"doctor", "patient"}

AssignBodies ==
    [pat_id : {2, 9}, medicine_id : {3, 9}, prescription : {"a", "b"},
     medicine_qty : Quantities]

RECURSIVE Pow10Digits(_)
\* 10^(number of decimal digits of n), n >= 0.
Pow10Digits(n) == IF n < 10 THEN 10 ELSE 10 * Pow10Digits(n \div 10)

\* Mutant of JsAdd: the operand is converted to a number before the addition.
NumericAdd(stored, qty) == [ok |-> TRUE, v |-> stored + qty.v]

\* existingAssignment.medicine_qty += medicine_qty, then the Number cast of the
\* schema: number + number adds; number + string concatenates the decimal
\* texts, and the cast reads the text back (a text such as "3-5" does not cast).
JsAdd(stored, qty) ==
    IF qty.t = "number" THEN [ok |-> TRUE, v |-> stored + qty.v]
    ELSE IF qty.v < 0 THEN [ok |-> FALSE, v |-> 0]
    ELSE IF stored >= 0 THEN [ok |-> TRUE, v |-> stored * Pow10Digits(qty.v) + qty.v]
    ELSE [ok |-> TRUE, v |-> stored * Pow10Digits(qty.v) - qty.v]

\* Mutant of QtyValid: the schema without `min: 1`.
QtyUnchecked(v) == TRUE

\* medicineQty: { type: Number, required: true, min: 1 }
QtyValid(v) == v >= 1

SamePair(a, body) == a.pat_id = body.pat_id /\ a.medicine_id = body.medicine_id

\* req.user.role is 'doctor', 'admin' or 'staff'.
MayAssign(role) == role \in {"doctor", "admin", "staff"}

PostAssigned_findPatient(r) ==
    /\ CanStart(r)
    /\ \E role \in Roles :
         IF ~MayAssign(role)
         THEN req' = [req EXCEPT ![r] = Forbidden("PostAssigned", role)]
         ELSE \E body \in AssignBodies :
           LET patient == FindById(patients, body.pat_id)
               e == Enter("PostAssigned", "findMedicine", 0, body) @@
                    [role |-> role, existing |-> Null]
           IN  req' = [req EXCEPT ![r] =
                         IF patient = Null THEN Finish(e, 404, "", 0)
                         ELSE e]
    /\ started' = started + 1
    /\ UNCHANGED <<patients, doctors, medicines, assigned, oid, issued, wards, visits>>

AssignRespond(r, code, err) ==
    Respond(r, code, err, 0) @@ [role |-> req[r].role, existing |-> req[r].existing]

\* Mutant of PostAssigned_findMedicine: the medicine lookup's result is not tested.
PostAssigned_skipMedicineCheck(r) ==
    /\ req[r].op = "PostAssigned" /\ req[r].pc = "findMedicine"
    /\ req' = [req EXCEPT ![r] = [@ EXCEPT !.pc = "findAssignment"]]
    /\ UNCHANGED <<patients, doctors, medicines, assigned, started, oid, issued, wards, visits>>

PostAssigned_findMedicine(r) ==
    /\ req[r].op = "PostAssigned" /\ req[r].pc = "findMedicine"
    /\ LET medicine == FindById(medicines, req[r].body.medicine_id)
       IN  req' = [req EXCEPT ![r] =
                     IF medicine = Null
                     THEN AssignRespond(r, 404, "")
                     ELSE [@ EXCEPT !.pc = "findAssignment"]]
    /\ UNCHANGED <<patients, doctors, medicines, assigned, started, oid, issued, wards, visits>>

PostAssigned_findAssignment(r) ==
    /\ req[r].op = "PostAssigned" /\ req[r].pc = "findAssignment"
    /\ LET existingAssignment == FindOne(assigned, {i \in Indices(assigned) : SamePair(assigned[i], req[r].body)})
       IN  req' = [req EXCEPT ![r] =
                     [@ EXCEPT !.pc = "save", !.existing = existingAssignment]]
    /\ UNCHANGED <<patients, doctors, medicines, assigned, started, oid, issued, wards, visits>>

\* document.save() of a loaded document: $set of the paths whose value
\* changed since it was loaded, on the stored document with its _id.
SaveModified(coll, loaded, changed) ==
    [i \in Indices(coll) |->
        IF coll[i]._id = loaded._id
        THEN [f \in DOMAIN coll[i] |->
                IF f \in DOMAIN changed /\ changed[f] # loaded[f]
                THEN changed[f] ELSE coll[i][f]]
        ELSE coll[i]]

PostAssigned_save(r) ==
    /\ req[r].op = "PostAssigned" /\ req[r].pc = "save"
    /\ LET body     == req[r].body
           existing == req[r].existing
       IN  IF existing # Null
           THEN LET sum == JsAdd(existing.medicine_qty, body.medicine_qty)
                IN  IF sum.ok /\ QtyValid(sum.v)
                    THEN /\ assigned' = SaveModified(assigned, existing,
                                           [medicine_qty |-> sum.v,
                                            prescription |-> body.prescription])
                         /\ req' = [req EXCEPT ![r] = AssignRespond(r, 200, "")]
                         /\ UNCHANGED oid
                    ELSE /\ req' = [req EXCEPT ![r] = AssignRespond(r, 500, "ValidationError")]
                         /\ UNCHANGED <<assigned, oid>>
           ELSE IF QtyValid(body.medicine_qty.v)
           THEN /\ assigned' = Append(assigned,
                                 [_id |-> oid + 1, pat_id |-> body.pat_id,
                                  medicine_id |-> body.medicine_id,
                                  prescription |-> body.prescription,
                                  medicine_qty |-> body.medicine_qty.v])
                /\ oid' = oid + 1
                /\ req' = [req EXCEPT ![r] = AssignRespond(r, 200, "")]
           ELSE /\ req' = [req EXCEPT ![r] = AssignRespond(r, 500, "ValidationError")]
                /\ UNCHANGED <<assigned, oid>>
    /\ UNCHANGED <<patients, doctors, medicines, started, issued, wards, visits>>

-----------------------------------------------------------------------------
(* PUT and DELETE api/medicinesassigned/:id *)

\* req.params.id: the _id of the first assignment stored, and one of none.
AssignKeys == {4, 9}

AssignUpdates ==
    {[medicine_qty |-> Num(5)], [medicine_qty |-> Num(0)], [prescription |-> "c"]}

PutAssigned_findAssignment(r) ==
    /\ CanStart(r)
    /\ \E role \in Roles :
         IF ~MayAssign(role)
         THEN req' = [req EXCEPT ![r] = Forbidden("PutAssigned", role)]
         ELSE \E key \in AssignKeys, body \in AssignUpdates :
           LET assignment == FindById(assigned, key)
               e == Enter("PutAssigned", "save", key, body) @@
                    [role |-> role, existing |-> assignment]
           IN  req' = [req EXCEPT ![r] =
                         IF assignment = Null THEN Finish(e, 404, "", 0)
                         ELSE e]
    /\ started' = started + 1
    /\ UNCHANGED <<patients, doctors, medicines, assigned, oid, issued, wards, visits>>

\* if (req.body.prescription) ...; if (req.body.medicine_qty !== undefined) ...
\* then save(): the assigned paths, the quantity cast to a number.
AssignChanges(body) ==
    [f \in DOMAIN body |-> IF f = "medicine_qty" THEN body[f].v ELSE body[f]]

\* Mutant of PutAssigned_save: the quantity given is added to the loaded one.
PutAssigned_add(r) ==
    /\ req[r].op = "PutAssigned" /\ req[r].pc = "save"
    /\ LET body    == AssignChanges(req[r].body)
           changed == [f \in DOMAIN body |->
                         IF f = "medicine_qty"
                         THEN req[r].existing.medicine_qty + body[f] ELSE body[f]]
       IN  IF Has(changed, "medicine_qty") /\ ~QtyValid(changed.medicine_qty)
           THEN /\ req' = [req EXCEPT ![r] = Respond(r, 500, "ValidationError", 0)]
                /\ UNCHANGED assigned
           ELSE /\ assigned' = SaveModified(assigned, req[r].existing, changed)
                /\ req' = [req EXCEPT ![r] = Respond(r, 200, "", 0)]
    /\ UNCHANGED <<patients, doctors, medicines, started, oid, issued, wards, visits>>

PutAssigned_save(r) ==
    /\ req[r].op = "PutAssigned" /\ req[r].pc = "save"
    /\ LET changed == AssignChanges(req[r].body)
       IN  IF Has(changed, "medicine_qty") /\ ~QtyValid(changed.medicine_qty)
           THEN /\ req' = [req EXCEPT ![r] = Respond(r, 500, "ValidationError", 0)]
                /\ UNCHANGED assigned
           ELSE /\ assigned' = SaveModified(assigned, req[r].existing, changed)
                /\ req' = [req EXCEPT ![r] = Respond(r, 200, "", 0)]
    /\ UNCHANGED <<patients, doctors, medicines, started, oid, issued, wards, visits>>

DeleteAssigned_findAssignment(r) ==
    /\ CanStart(r)
    /\ \E role \in Roles :
         IF ~MayAssign(role)
         THEN req' = [req EXCEPT ![r] = Forbidden("DeleteAssigned", role)]
         ELSE \E key \in AssignKeys :
           LET assignment == FindById(assigned, key)
               e == Enter("DeleteAssigned", "remove", key, [none |-> TRUE]) @@
                    [role |-> role]
           IN  req' = [req EXCEPT ![r] =
                         IF assignment = Null THEN Finish(e, 404, "", 0)
                         ELSE e]
    /\ started' = started + 1
    /\ UNCHANGED <<patients, doctors, medicines, assigned, oid, issued, wards, visits>>

\* document.remove(): deletes the stored document with the _id.
RemoveByKey(coll, key) ==
    LET hits == {i \in Indices(coll) : coll[i]._id = key}
    IN  IF hits = {} THEN coll
        ELSE LET k == CHOOSE i \in hits : TRUE
             IN  SubSeq(coll, 1, k - 1) \o SubSeq(coll, k + 1, Len(coll))

DeleteAssigned_remove(r) ==
    /\ req[r].op = "DeleteAssigned" /\ req[r].pc = "remove"
    /\ assigned' = RemoveByKey(assigned, req[r].id)
    /\ req' = [req EXCEPT ![r] = Respond(r, 200, "", 0)]
    /\ UNCHANGED <<patients, doctors, medicines, started, oid, issued, wards, visits>>

-----------------------------------------------------------------------------
(* POST api/doctorvisits, PUT and DELETE api/doctorvisits/:id *)

VisitBodies == [pat_id : {2, 9}, doctor_id : {1, 9}, visits : {1, 2}]

SameVisit(v, body) ==
    v.pat_id = body.pat_id /\ v.doctor_id = body.doctor_id /\ v.visits = body.visits

\* The handler never reads req.user.role; role is the caller's, as `auth` set it.
PostVisit_findPatient(r) ==
    /\ CanStart(r)
    /\ \E body \in VisitBodies, role \in Roles :
         LET patient == FindById(patients, body.pat_id)
             e == Enter("PostVisit", "findDoctor", 0, body) @@ [role |-> role]
         IN  req' = [req EXCEPT ![r] =
                       IF patient = Null THEN Finish(e, 404, "", 0)
                       ELSE e]
    /\ started' = started + 1
    /\ UNCHANGED <<patients, doctors, medicines, assigned, oid, issued, wards, visits>>

PostVisit_findDoctor(r) ==
    /\ req[r].op = "PostVisit" /\ req[r].pc = "findDoctor"
    /\ LET doctor == FindById(doctors, req[r].body.doctor_id)
       IN  req' = [req EXCEPT ![r] =
                     IF doctor = Null
                     THEN Respond(r, 404, "", 0)
                     ELSE [@ EXCEPT !.pc = "findVisit"]]
    /\ UNCHANGED <<patients, doctors, medicines, assigned, started, oid, issued, wards, visits>>

\* Mutant of PostVisit_findVisit: the existingVisit test is left out.
PostVisit_skipExistingCheck(r) ==
    /\ req[r].op = "PostVisit" /\ req[r].pc = "findVisit"
    /\ req' = [req EXCEPT ![r] = [@ EXCEPT !.pc = "save"]]
    /\ UNCHANGED <<patients, doctors, medicines, assigned, started, oid, issued, wards, visits>>

PostVisit_findVisit(r) ==
    /\ req[r].op = "PostVisit" /\ req[r].pc = "findVisit"
    /\ LET existingVisit == FindOne(visits, {i \in Indices(visits) : SameVisit(visits[i], req[r].body)})
       IN  req' = [req EXCEPT ![r] =
                     IF existingVisit # Null
                     THEN Respond(r, 400, "", 0)
                     ELSE [@ EXCEPT !.pc = "save"]]
    /\ UNCHANGED <<patients, doctors, medicines, assigned, started, oid, issued, wards, visits>>

PostVisit_save(r) ==
    /\ req[r].op = "PostVisit" /\ req[r].pc = "save"
    /\ visits' = Append(visits, [_id |-> oid + 1, pat_id |-> req[r].body.pat_id,
                                  doctor_id |-> req[r].body.doctor_id,
                                  visits |-> req[r].body.visits])
    /\ oid' = oid + 1
    /\ req' = [req EXCEPT ![r] = Respond(r, 200, "", 0)]
    /\ UNCHANGED <<patients, doctors, medicines, assigned, started, issued, wards>>

\* req.params.id: the _id of the first visit stored, of the second, and one of none.
VisitKeys == {4, 5, 9}

VisitUpdates == {[visits |-> 1], [visits |-> 2]}

\* req.user.role is 'admin', 'doctor' or 'staff'.
MayUpdateVisit(role) == role \in {"admin", "doctor", "staff"}

PutVisit_findVisit(r) ==
    /\ CanStart(r)
    /\ \E key \in VisitKeys, body \in VisitUpdates, role \in Roles :
         LET visit == FindById(visits, key)
             e == Enter("PutVisit", "save", key, body) @@
                  [role |-> role, existing |-> visit]
         IN  req' = [req EXCEPT ![r] =
                       IF visit = Null THEN Finish(e, 404, "", 0)
                       ELSE IF ~MayUpdateVisit(role) THEN Finish(e, 401, "", 0)
                       ELSE e]
    /\ started' = started + 1
    /\ UNCHANGED <<patients, doctors, medicines, assigned, oid, issued, wards, visits>>

PutVisit_save(r) ==
    /\ req[r].op = "PutVisit" /\ req[r].pc = "save"
    /\ visits' = SaveModified(visits, req[r].existing, req[r].body)
    /\ req' = [req EXCEPT ![r] = Respond(r, 200, "", 0)]
    /\ UNCHANGED <<patients, doctors, medicines, assigned, started, oid, issued, wards>>

DeleteVisit_findVisit(r) ==
    /\ CanStart(r)
    /\ \E role \in AdminCallers :
         IF role # "admin"
         THEN req' = [req EXCEPT ![r] = Forbidden("DeleteVisit", role)]
         ELSE \E key \in VisitKeys :
           LET visit == FindById(visits, key)
               e == Enter("DeleteVisit", "remove", key, [none |-> TRUE]) @@
                    [role |-> role]
           IN  req' = [req EXCEPT ![r] =
                         IF visit = Null THEN Finish(e, 404, "", 0)
                         ELSE e]
    /\ started' = started + 1
    /\ UNCHANGED <<patients, doctors, medicines, assigned, oid, issued, wards, visits>>

DeleteVisit_remove(r) ==
    /\ req[r].op = "DeleteVisit" /\ req[r].pc = "remove"
    /\ visits' = RemoveByKey(visits, req[r].id)
    /\ req' = [req EXCEPT ![r] = Respond(r, 200, "", 0)]
    /\ UNCHANGED <<patients, doctors, medicines, assigned, started, oid, issued, wards>>

-----------------------------------------------------------------------------
(* POST api/wards, PUT and DELETE api/wards/:id *)

\* A body value that is not the text of a number.
Text == [t |-> "text", v |-> 0]

\* check(...).isNumeric() of express-validator.
IsNumeric(x) == x.t \in {"number", "string"}

\* enum: ['general', 'private', 'icu', 'emergency']
WardTypes == {"general", "private", "icu", "emergency"}

WardBodies ==
    [type : {"icu", "vip"}, charges : {Num(50), Text},
     availability : {TRUE}, max_cap : {Num(10)}]

\* The response to a body the route's express-validator checks refuse.
Invalid(op, role) ==
    [op |-> op, pc |-> "done", role |-> role, status |-> 400, err |-> "", data |-> 0]

\* The fields a body carries, the numeric ones cast to numbers.
Cast(body) ==
    [f \in DOMAIN body |->
        IF f \in {"charges", "max_cap"} THEN body[f].v ELSE body[f]]

\* The validator checks, then the role check, then newWard.save(): one store call.
PostWard_save(r) ==
    /\ CanStart(r)
    /\ \E body \in WardBodies, role \in AdminCallers :
         IF ~(IsNumeric(body.charges) /\ IsNumeric(body.max_cap))
         THEN /\ req' = [req EXCEPT ![r] = Invalid("PostWard", role)]
              /\ UNCHANGED <<wards, oid>>
         ELSE IF role # "admin"
         THEN /\ req' = [req EXCEPT ![r] = Forbidden("PostWard", role)]
              /\ UNCHANGED <<wards, oid>>
         ELSE LET e == Enter("PostWard", "save", 0, body) @@ [role |-> role]
              IN  IF body.type \notin WardTypes
                  THEN /\ req' = [req EXCEPT ![r] = Finish(e, 500, "ValidationError", 0)]
                       /\ UNCHANGED <<wards, oid>>
                  ELSE /\ wards' = Append(wards,
                                      [_id |-> oid + 1, currentOccupancy |-> 0] @@ Cast(body))
                       /\ oid' = oid + 1
                       /\ req' = [req EXCEPT ![r] = Finish(e, 200, "", 0)]
    /\ started' = started + 1
    /\ UNCHANGED <<patients, doctors, medicines, assigned, issued, visits>>

WardUpdates ==
    {[charges |-> Num(60)], [charges |-> Text], [type |-> "vip"], [max_cap |-> Num(5)],
     [max_cap |-> Num(-1)]}

\* Mutant of PutWard_findWard: the role check is left out.
PutWard_anyRole(r) ==
    /\ CanStart(r)
    /\ \E key \in WardKeys, body \in WardUpdates, role \in AdminCallers :
         LET ward == FindById(wards, key)
             e == Enter("PutWard", "save", key, body) @@
                  [role |-> role, existing |-> ward]
         IN  req' = [req EXCEPT ![r] =
                       IF \E f \in DOMAIN body \cap {"charges", "max_cap"} : ~IsNumeric(body[f])
                       THEN Invalid("PutWard", role)
                       ELSE IF ward = Null THEN Finish(e, 404, "", 0)
                       ELSE e]
    /\ started' = started + 1
    /\ UNCHANGED <<patients, doctors, medicines, assigned, oid, issued, wards, visits>>

PutWard_findWard(r) ==
    /\ CanStart(r)
    /\ \E key \in WardKeys, body \in WardUpdates, role \in AdminCallers :
         LET ward == FindById(wards, key)
             e == Enter("PutWard", "save", key, body) @@
                  [role |-> role, existing |-> ward]
         IN  req' = [req EXCEPT ![r] =
                       IF \E f \in DOMAIN body \cap {"charges", "max_cap"} : ~IsNumeric(body[f])
                       THEN Invalid("PutWard", role)
                       ELSE IF role # "admin" THEN Forbidden("PutWard", role)
                       ELSE IF ward = Null THEN Finish(e, 404, "", 0)
                       ELSE e]
    /\ started' = started + 1
    /\ UNCHANGED <<patients, doctors, medicines, assigned, oid, issued, wards, visits>>

PutWard_save(r) ==
    /\ req[r].op = "PutWard" /\ req[r].pc = "save"
    /\ LET changed == Cast(req[r].body)
       IN  IF Has(changed, "type") /\ changed.type \notin WardTypes
           THEN /\ req' = [req EXCEPT ![r] = Respond(r, 500, "ValidationError", 0)]
                /\ UNCHANGED wards
           ELSE /\ wards' = SaveModified(wards, req[r].existing, changed)
                /\ req' = [req EXCEPT ![r] = Respond(r, 200, "", 0)]
    /\ UNCHANGED <<patients, doctors, medicines, assigned, started, oid, issued, visits>>

\* Mutant of DeleteWard_findWard: the role check is left out.
DeleteWard_anyRole(r) ==
    /\ CanStart(r)
    /\ \E role \in AdminCallers, key \in WardKeys :
         LET ward == FindById(wards, key)
             e == Enter("DeleteWard", "remove", key, [none |-> TRUE]) @@
                  [role |-> role]
         IN  req' = [req EXCEPT ![r] =
                       IF ward = Null THEN Finish(e, 404, "", 0)
                       ELSE e]
    /\ started' = started + 1
    /\ UNCHANGED <<patients, doctors, medicines, assigned, oid, issued, wards, visits>>

DeleteWard_findWard(r) ==
    /\ CanStart(r)
    /\ \E role \in AdminCallers :
         IF role # "admin"
         THEN req' = [req EXCEPT ![r] = Forbidden("DeleteWard", role)]
         ELSE \E key \in WardKeys :
           LET ward == FindById(wards, key)
               e == Enter("DeleteWard", "remove", key, [none |-> TRUE]) @@
                    [role |-> role]
           IN  req' = [req EXCEPT ![r] =
                         IF ward = Null THEN Finish(e, 404, "", 0)
                         ELSE e]
    /\ started' = started + 1
    /\ UNCHANGED <<patients, doctors, medicines, assigned, oid, issued, wards, visits>>

DeleteWard_remove(r) ==
    /\ req[r].op = "DeleteWard" /\ req[r].pc = "remove"
    /\ wards' = RemoveByKey(wards, req[r].id)
    /\ req' = [req EXCEPT ![r] = Respond(r, 200, "", 0)]
    /\ UNCHANGED <<patients, doctors, medicines, assigned, started, oid, issued, visits>>

-----------------------------------------------------------------------------

Init ==
    /\ patients = <<>>
    /\ doctors = <<>>
    /\ medicines = <<>>
    /\ assigned = <<>>
    /\ wards = <<>>
    /\ visits = <<>>
    /\ req = [r \in Reqs |-> Idle]
    /\ started = 0
    /\ oid = 0
    /\ issued = [t \in EntityTypes |-> {}]

Next ==
    \E r \in Reqs :
        \/ PostPatient_findUser(r)
        \/ PostPatient_findDoctor(r)
        \/ PostPatient_findHighest(r)
        \/ PostPatient_create(r)
        \/ PutPatient_findPatient(r)
        \/ PutPatient_findDoctor(r)
        \/ PutPatient_update(r)
        \/ DeletePatient_findPatient(r)
        \/ DeletePatient_delete(r)
        \/ PostDoctor_findEmployee(r)
        \/ PostDoctor_findDoctor(r)
        \/ PostDoctor_findHighest(r)
        \/ PostDoctor_create(r)
        \/ PutDoctor_findDoctor(r)
        \/ PutDoctor_update(r)
        \/ DeleteDoctor_findDoctor(r)
        \/ DeleteDoctor_delete(r)
        \/ PostMedicine_findHighest(r)
        \/ PostMedicine_create(r)
        \/ PutMedicine_findMedicine(r)
        \/ PutMedicine_update(r)
        \/ DeleteMedicine_findMedicine(r)
        \/ DeleteMedicine_delete(r)

Spec == Init /\ [][Next]_vars

\* The medicine-assignment requests, from a store that holds a doctor, a
\* patient and a medicine (as three creates leave it); MaxAssigns requests
\* are received.
InitAssign ==
    /\ doctors = << [_id |-> 1, id |-> 1, empId |-> 1, charges |-> 100] >>
    /\ patients = << [_id |-> 2, id |-> 1, userId |-> 1, doctorId |-> 1,
                      bloodGroup |-> "A+", prescription |-> Undefined,
                      wardId |-> Undefined, paymentStatus |-> "pending"] >>
    /\ medicines = << [_id |-> 3, id |-> 1, name |-> "m", price |-> 10] >>
    /\ assigned = <<>>
    /\ wards = <<>>
    /\ visits = <<>>
    /\ req = [r \in Reqs |-> Idle]
    /\ started = MaxOps - MaxAssigns
    /\ oid = 3
    /\ issued = [t \in EntityTypes |-> {1}]

NextAssign ==
    \E r \in Reqs :
        \/ PostAssigned_findPatient(r)
        \/ PostAssigned_findMedicine(r)
        \/ PostAssigned_findAssignment(r)
        \/ PostAssigned_save(r)
        \/ PutAssigned_findAssignment(r)
        \/ PutAssigned_save(r)
        \/ DeleteAssigned_findAssignment(r)
        \/ DeleteAssigned_remove(r)

SpecAssign == InitAssign /\ [][NextAssign]_vars

NextVisit ==
    \E r \in Reqs :
        \/ PostVisit_findPatient(r)
        \/ PostVisit_findDoctor(r)
        \/ PostVisit_findVisit(r)
        \/ PostVisit_save(r)
        \/ PutVisit_findVisit(r)
        \/ PutVisit_save(r)
        \/ DeleteVisit_findVisit(r)
        \/ DeleteVisit_remove(r)

\* The doctor-visit requests, from the same store.
SpecVisit == InitAssign /\ [][NextVisit]_vars

NextWard ==
    \E r \in Reqs :
        \/ PostWard_save(r)
        \/ PutWard_findWard(r)
        \/ PutWard_save(r)
        \/ DeleteWard_findWard(r)
        \/ DeleteWard_remove(r)

\* The ward requests, from the same store.
SpecWard == InitAssign /\ [][NextWard]_vars

NextAdmit ==
    \E r \in Reqs :
        \/ PostWard_save(r)
        \/ PostPatient_admit(r)
        \/ PostPatient_findDoctor(r)
        \/ PostPatient_findHighest(r)
        \/ PostPatient_create(r)
        \/ PutPatient_pay(r)
        \/ PutPatient_update(r)

\* Ward creates, admissions and payment updates, from the same store.
SpecAdmit == InitAssign /\ [][NextAdmit]_vars

\* The requests of all the routes together, MaxAll of them, from the same store.
InitAll ==
    /\ doctors = << [_id |-> 1, id |-> 1, empId |-> 1, charges |-> 100] >>
    /\ patients = << [_id |-> 2, id |-> 1, userId |-> 1, doctorId |-> 1,
                      bloodGroup |-> "A+", prescription |-> Undefined,
                      wardId |-> Undefined, paymentStatus |-> "pending"] >>
    /\ medicines = << [_id |-> 3, id |-> 1, name |-> "m", price |-> 10] >>
    /\ assigned = <<>>
    /\ wards = <<>>
    /\ visits = <<>>
    /\ req = [r \in Reqs |-> Idle]
    /\ started = MaxOps - MaxAll
    /\ oid = 3
    /\ issued = [t \in EntityTypes |-> {1}]

SpecAll == InitAll /\ [][Next \/ NextAssign \/ NextVisit \/ NextWard]_vars

\* The medicine-assignment and doctor-visit requests together.
SpecRecords == InitAssign /\ [][NextAssign \/ NextVisit]_vars

-----------------------------------------------------------------------------
(* Sequential id allocation *)

\* The collection a create handler allocates its id from.
CollOf(op) ==
    IF op = "PostPatient" THEN patients
    ELSE IF op = "PostDoctor" THEN doctors
    ELSE medicines

TypeOf(op) ==
    IF op = "PostPatient" THEN "Patient"
    ELSE IF op = "PostDoctor" THEN "Doctor"
    ELSE "Medicine"

CreateOps == {"PostPatient", "PostDoctor", "PostMedicine"}

\* Request r has just read the highest id (it moved to "create" in this step).
ReadsHighest(r) == req'[r].pc = "create" /\ req[r].pc # "create"

\* Request r runs its insert step.
Inserts(r) == req[r].pc = "create" /\ req'[r].pc = "done"

\* C1: a create of a Patient, Doctor or Medicine gets the id max+1, max being
\* the largest id in the collection when the id is read, and 1 when the
\* collection is empty, whatever the order the documents were inserted in.
C1_NewIdIsMaxPlusOne ==
    [][\A r \in Reqs :
         ReadsHighest(r) =>
           LET ids == Ids(CollOf(req'[r].op))
               n   == req'[r].newId
           IN  IF ids = {} THEN n = 1
               ELSE (n - 1) \in ids /\ \A i \in ids : i < n]_vars

\* C1 witness: an id was read from a collection whose documents are not in
\* ascending id order, the highest id being the first inserted.
C1_Witness ==
    /\ Len(doctors) = 2 /\ doctors[1].id > doctors[2].id
    /\ \E r \in Reqs : /\ req[r].op = "PostDoctor" /\ req[r].pc = "create"
                       /\ req[r].newId = doctors[1].id + 1

\* C2 (as claimed): the id a successful create gives differs from every id an
\* earlier create of the type gave, deleted records included.
C2_IdsNeverReused ==
    [][\A r \in Reqs :
         (Inserts(r) /\ req'[r].status = 201) =>
           req'[r].data \notin issued[TypeOf(req[r].op)]]_vars

\* C3: no collection of Patient, Doctor or Medicine ever holds two documents
\* with the same id, under every interleaving of the create requests.
UniqueIds(coll) ==
    \A i, j \in Indices(coll) : coll[i].id = coll[j].id => i = j

C3_IdsUnique == UniqueIds(patients) /\ UniqueIds(doctors) /\ UniqueIds(medicines)

\* C3 witness: two creates computed the same id; one insert succeeded and the
\* unique index rejected the other.
C3_Witness ==
    \E r1, r2 \in Reqs :
        /\ req[r1].op = "PostDoctor" /\ req[r2].op = "PostDoctor"
        /\ req[r1].pc = "done" /\ req[r2].pc = "done"
        /\ req[r1].status = 201 /\ req[r2].err = "E11000"
        /\ req[r1].newId = req[r2].newId
        /\ Cardinality({i \in Indices(doctors) : doctors[i].id = req[r1].newId}) = 1

\* C4 (as claimed): a create whose insert the unique index on id rejected ends
\* with a status of class 400.
C4_DuplicateIdIsConflict ==
    \A r \in Reqs :
        (req[r].pc = "done" /\ req[r].op \in CreateOps /\ req[r].err = "E11000")
            => req[r].status \in 400..499

-----------------------------------------------------------------------------
(* Create Patient *)

\* The steps of a Create Patient request.
PatientEnters(r) == Free(r) /\ req'[r] # req[r] /\ req'[r].op = "PostPatient"

PatientChecksDoctor(r) == req[r].op = "PostPatient" /\ req[r].pc = "findDoctor" /\ req'[r] # req[r]

PatientInserts(r) == req[r].op = "PostPatient" /\ Inserts(r)

NotFoundAndUnchanged(r) ==
    req'[r].pc = "done" /\ req'[r].status = 404 /\ patients' = patients

\* The reference checks of Create Patient: NotFound and no change when the
\* user or the doctor is missing.
PatientRefsChecked(r) ==
    /\ PatientEnters(r) =>
         IF req'[r].body.userId \notin Ids(Users)
         THEN NotFoundAndUnchanged(r)
         ELSE req'[r].pc # "done" /\ patients' = patients
    /\ PatientChecksDoctor(r) =>
         IF req[r].body.doctorId \notin Ids(doctors)
         THEN NotFoundAndUnchanged(r)
         ELSE req'[r].pc # "done" /\ patients' = patients

\* Exactly one new Patient is stored, with the allocated id, and returned.
StoresOnePatient(r) ==
    /\ Len(patients') = Len(patients) + 1
    /\ SubSeq(patients', 1, Len(patients)) = patients
    /\ patients'[Len(patients')].id = req[r].newId
    /\ patients'[Len(patients')].userId = req[r].body.userId
    /\ patients'[Len(patients')].doctorId = req[r].body.doctorId
    /\ req'[r].status = 201 /\ req'[r].data = req[r].newId

\* C5 (as claimed): NotFound and no change when the user or the doctor is
\* missing; otherwise exactly one new Patient is stored and returned.
C5_CreatePatientAsClaimed ==
    [][\A r \in Reqs :
         /\ PatientRefsChecked(r)
         /\ PatientInserts(r) => StoresOnePatient(r)]_vars

\* C5 (amended): NotFound and no change when the user or the doctor is
\* missing; otherwise exactly one new Patient is stored and returned, unless
\* the store rejects the insert (the document fails schema validation, or its
\* id is already taken), and then the request ends with 500 and nothing is
\* stored.
C5_CreatePatient ==
    [][\A r \in Reqs :
         /\ PatientRefsChecked(r)
         /\ PatientInserts(r) =>
              IF /\ req[r].body.bloodGroup \in BloodGroups
                 /\ req[r].newId \notin Ids(patients)
              THEN StoresOnePatient(r)
              ELSE patients' = patients /\ req'[r].status = 500]_vars

\* C5 witness: one request ended NotFound for a missing doctor with nothing
\* stored by it, and another stored a patient.
C5_Witness ==
    \E r1, r2 \in Reqs :
        /\ req[r1].op = "PostPatient" /\ req[r1].pc = "done"
        /\ req[r1].status = 404 /\ req[r1].body.userId \in Ids(Users)
        /\ req[r2].op = "PostPatient" /\ req[r2].pc = "done"
        /\ req[r2].status = 201
        /\ Len(patients) = 1 /\ patients[1].id = req[r2].data

\* C6 (as claimed): the doctorId of every stored Patient is the id of a stored
\* Doctor.
C6_PatientDoctorExists ==
    \A i \in Indices(patients) : patients[i].doctorId \in Ids(doctors)

-----------------------------------------------------------------------------
(* Create Doctor *)

\* The handler of Create Doctor is entered (the caller passed the access check).
DoctorEnters(r) ==
    /\ Free(r) /\ req'[r] # req[r] /\ req'[r].op = "PostDoctor"
    /\ admin(req'[r].role)

DoctorChecksExisting(r) == req[r].op = "PostDoctor" /\ req[r].pc = "findDoctor" /\ req'[r] # req[r]

DoctorInserts(r) == req[r].op = "PostDoctor" /\ Inserts(r)

EmpIds(coll) == {coll[i].empId : i \in Indices(coll)}

\* The checks of Create Doctor: NotFound for a missing employee, Conflict for
\* an empId a stored Doctor has, no change in both cases.
DoctorRefsChecked(r) ==
    /\ DoctorEnters(r) =>
         IF req'[r].body.empId \notin Ids(Employees)
         THEN req'[r].pc = "done" /\ req'[r].status = 404 /\ doctors' = doctors
         ELSE req'[r].pc # "done" /\ doctors' = doctors
    /\ DoctorChecksExisting(r) =>
         IF req[r].body.empId \in EmpIds(doctors)
         THEN req'[r].pc = "done" /\ req'[r].status = 400 /\ doctors' = doctors
         ELSE req'[r].pc # "done" /\ doctors' = doctors

StoresOneDoctor(r) ==
    /\ Len(doctors') = Len(doctors) + 1
    /\ SubSeq(doctors', 1, Len(doctors)) = doctors
    /\ doctors'[Len(doctors')].id = req[r].newId
    /\ doctors'[Len(doctors')].empId = req[r].body.empId
    /\ req'[r].status = 201 /\ req'[r].data = req[r].newId

\* C7 (as claimed): NotFound for a missing employee, Conflict for an empId
\* already taken, no change in both cases; otherwise exactly one new Doctor is
\* stored.
C7_CreateDoctorAsClaimed ==
    [][\A r \in Reqs :
         /\ DoctorRefsChecked(r)
         /\ DoctorInserts(r) => StoresOneDoctor(r)]_vars

\* C7 (amended): NotFound for a missing employee, Conflict for an empId a
\* stored Doctor has when the request looks it up, no change in both cases;
\* otherwise exactly one new Doctor is stored, unless the store rejects the
\* insert (charges missing, or the id already taken), and then the request
\* ends with 500 and nothing is stored.
C7_CreateDoctor ==
    [][\A r \in Reqs :
         /\ DoctorRefsChecked(r)
         /\ DoctorInserts(r) =>
              IF Has(req[r].body, "charges") /\ req[r].newId \notin Ids(doctors)
              THEN StoresOneDoctor(r)
              ELSE doctors' = doctors /\ req'[r].status = 500]_vars

\* C7 witness: two Create Doctor calls with the same empId, one after the
\* other: the first stored the doctor, the second ended with Conflict.
C7_Witness ==
    \E r1, r2 \in Reqs :
        /\ req[r1].op = "PostDoctor" /\ req[r1].pc = "done" /\ req[r1].status = 201
        /\ req[r2].op = "PostDoctor" /\ req[r2].pc = "done" /\ req[r2].status = 400
        /\ req[r1].body.empId = req[r2].body.empId
        /\ Len(doctors) = 1 /\ doctors[1].empId = req[r1].body.empId

\* C8 (as claimed): no two stored Doctors have the same empId.
C8_EmpIdUnique ==
    \A i, j \in Indices(doctors) : doctors[i].empId = doctors[j].empId => i = j

-----------------------------------------------------------------------------
(* Assign Medicine *)

AssignSaves(r) == req[r].op = "PostAssigned" /\ req[r].pc = "save" /\ req'[r].pc = "done"

\* The stored assignments of the body's (patient, medicine) pair.
PairDocs(coll, body) == {i \in Indices(coll) : SamePair(coll[i], body)}

\* C9 (as claimed, for a quantity of at least 1 and a pair whose stored
\* assignment, if any, is the single one the request looked up): the save
\* leaves exactly one assignment for the pair, with the quantities summed and
\* the prescription of the call; with no assignment for the pair it creates
\* exactly one with the quantity and the prescription of the call.
C9_AssignAddsQuantity ==
    [][\A r \in Reqs :
         (AssignSaves(r) /\ req[r].body.medicine_qty.v >= 1) =>
           LET body == req[r].body
               same == PairDocs(assigned, body)
               now  == PairDocs(assigned', body)
           IN  IF same = {}
               THEN /\ Len(assigned') = Len(assigned) + 1
                    /\ now = {Len(assigned')}
                    /\ assigned'[Len(assigned')].medicine_qty = body.medicine_qty.v
                    /\ assigned'[Len(assigned')].prescription = body.prescription
               ELSE IF Cardinality(same) = 1 /\ \A i \in same : assigned[i] = req[r].existing
               THEN /\ now = same
                    /\ \A i \in same :
                         /\ assigned'[i].medicine_qty =
                              assigned[i].medicine_qty + body.medicine_qty.v
                         /\ assigned'[i].prescription = body.prescription
               ELSE TRUE]_vars

\* C10 (as claimed): at most one stored MedicineAssignment for each
\* (patient, medicine) pair.
C10_OneAssignmentPerPair ==
    \A i, j \in Indices(assigned) :
        (assigned[i].pat_id = assigned[j].pat_id
           /\ assigned[i].medicine_id = assigned[j].medicine_id) => i = j

\* C11: the quantity of every stored MedicineAssignment is at least 1, after
\* any sequence of Assign Medicine calls and assignment updates, calls with a
\* zero or negative quantity included.
C11_QuantityAtLeastOne ==
    \A i \in Indices(assigned) : assigned[i].medicine_qty >= 1

\* C11 witness: an Assign Medicine call with a negative quantity on a stored
\* assignment and an update to quantity 0 were both refused, and the
\* assignment is stored with its quantity.
C11_Witness ==
    \E r1, r2 \in Reqs :
        /\ req[r1].op = "PostAssigned" /\ req[r1].pc = "done"
        /\ req[r1].err = "ValidationError"
        /\ req[r1].existing # Null /\ req[r1].body.medicine_qty.v < 0
        /\ req[r2].op = "PutAssigned" /\ req[r2].pc = "done"
        /\ req[r2].err = "ValidationError" /\ req[r2].body.medicine_qty.v = 0
        /\ Len(assigned) = 1 /\ assigned[1].medicine_qty = 3

-----------------------------------------------------------------------------
(* Assign Medicine and Record Doctor Visit: references and roles *)

Keys(coll) == {coll[i]._id : i \in Indices(coll)}

\* Request r enters the handler op in this step.
Arrives(r, op) == Free(r) /\ req'[r] # req[r] /\ req'[r].op = op

\* Request r enters one of the handlers ops in this step.
ArrivesIn(r, ops) == Free(r) /\ req'[r] # req[r] /\ req'[r].op \in ops

\* Request r takes the step at pc of the handler op.
StepsAt(r, op, pc) == req[r].op = op /\ req[r].pc = pc /\ req'[r] # req[r]

\* The step may be one of request r: its slot changes, or a request arrives
\* and the slot is left holding a finished one (a request repeated as it was).
MayAct(r) == req'[r] # req[r] \/ (Free(r) /\ started' # started /\ req'[r].pc = "done")

NotFoundNothingWritten(r) ==
    /\ req'[r].pc = "done" /\ req'[r].status = 404
    /\ assigned' = assigned /\ visits' = visits

\* C12: Assign Medicine (for a caller the route admits) ends with NotFound
\* when the patient or the medicine is not stored, Record Doctor Visit when
\* the patient or the doctor is not stored, and in each case no assignment
\* and no visit is created or modified.
C12_MissingReferenceNotFound ==
    [][\A r \in Reqs :
         /\ (Arrives(r, "PostAssigned") /\ MayAssign(req'[r].role)
               /\ req'[r].body.pat_id \notin Keys(patients))
              => NotFoundNothingWritten(r)
         /\ (StepsAt(r, "PostAssigned", "findMedicine")
               /\ req[r].body.medicine_id \notin Keys(medicines))
              => NotFoundNothingWritten(r)
         /\ (Arrives(r, "PostVisit") /\ req'[r].body.pat_id \notin Keys(patients))
              => NotFoundNothingWritten(r)
         /\ (StepsAt(r, "PostVisit", "findDoctor")
               /\ req[r].body.doctor_id \notin Keys(doctors))
              => NotFoundNothingWritten(r)]_vars

\* C12 witness: an Assign Medicine call for a stored patient and a missing
\* medicine and a Record Doctor Visit call for a stored patient and a missing
\* doctor both ended with NotFound, and nothing is stored.
C12_Witness ==
    \E r1, r2 \in Reqs :
        /\ req[r1].op = "PostAssigned" /\ req[r1].pc = "done" /\ req[r1].status = 404
        /\ req[r1].body.pat_id \in Keys(patients)
        /\ req[r1].body.medicine_id \notin Keys(medicines)
        /\ req[r2].op = "PostVisit" /\ req[r2].pc = "done" /\ req[r2].status = 404
        /\ req[r2].body.pat_id \in Keys(patients)
        /\ req[r2].body.doctor_id \notin Keys(doctors)
        /\ assigned = <<>> /\ visits = <<>>

-----------------------------------------------------------------------------
(* Record Doctor Visit *)

\* The stored visits with the body's (patient, doctor, visit info) tuple.
TupleDocs(coll, body) == {i \in Indices(coll) : SameVisit(coll[i], body)}

\* C13: a Record Doctor Visit call whose tuple is that of a stored visit when
\* the handler looks it up ends with Conflict (400) and leaves the visit
\* store unchanged.
C13_DuplicateVisitConflict ==
    [][\A r \in Reqs :
         (StepsAt(r, "PostVisit", "findVisit") /\ TupleDocs(visits, req[r].body) # {})
           => /\ req'[r].pc = "done" /\ req'[r].status = 400
              /\ visits' = visits]_vars

\* C13 witness: the same tuple recorded twice, one call after the other: one
\* visit is stored and the second call ended with Conflict.
C13_Witness ==
    \E r1, r2 \in Reqs :
        /\ req[r1].op = "PostVisit" /\ req[r1].pc = "done" /\ req[r1].status = 200
        /\ req[r2].op = "PostVisit" /\ req[r2].pc = "done" /\ req[r2].status = 400
        /\ req[r1].body = req[r2].body
        /\ Len(visits) = 1 /\ SameVisit(visits[1], req[r2].body)

\* C14 (as claimed): no two stored DoctorVisit records have the same
\* (patient, doctor, visit info) tuple.
C14_NoDuplicateVisit ==
    \A i, j \in Indices(visits) : SameVisit(visits[i], visits[j]) => i = j

-----------------------------------------------------------------------------
(* Access *)

\* C15: a ward delete request of a caller who is not admin ends with
\* Forbidden (401) at once, with the Ward store unchanged, and no such
\* request ever gets to the removal.
C15_NonAdminWardDeleteForbidden ==
    [][\A r \in Reqs :
         /\ (Arrives(r, "DeleteWard") /\ req'[r].role # "admin")
              => /\ req'[r].pc = "done" /\ req'[r].status = 401
                 /\ wards' = wards
         /\ StepsAt(r, "DeleteWard", "remove") => req[r].role = "admin"]_vars

\* C15 witness: a caller with the doctor role asked to delete a ward while a
\* ward was stored, was answered Forbidden, and the ward is still stored.
C15_Witness ==
    \E r \in Reqs :
        /\ req[r].op = "DeleteWard" /\ req[r].pc = "done"
        /\ req[r].role = "doctor" /\ req[r].status = 401
        /\ Len(wards) = 1 /\ wards[1]._id \in WardKeys

\* The writes the Access Policy reserves to admin.
AdminOps ==
    {"PostWard", "PutWard", "DeleteWard", "PostDoctor", "PutDoctor", "DeleteDoctor",
     "PostMedicine", "PutMedicine", "DeleteMedicine", "DeletePatient"}

\* C16: a create, update or delete of a Ward, Doctor or Medicine, or a delete
\* of a Patient, asked by a caller who is not admin is rejected with the
\* whole store unchanged, and every step that changes the Ward, Doctor or
\* Medicine store or removes a Patient is a step of an admin's request.
C16_AdminOnlyWrites ==
    [][/\ \A r \in Reqs :
            (ArrivesIn(r, AdminOps) /\ req'[r].role # "admin")
              => /\ req'[r].pc = "done" /\ req'[r].status \in {400, 401}
                 /\ <<patients, doctors, medicines, assigned, wards, visits>>' =
                      <<patients, doctors, medicines, assigned, wards, visits>>
       /\ (\/ wards' # wards \/ doctors' # doctors \/ medicines' # medicines
           \/ Len(patients') < Len(patients))
            => \E r \in Reqs : /\ MayAct(r) /\ req'[r].op \in AdminOps
                                /\ req'[r].role = "admin"]_vars

\* C16 witness: a caller with the doctor role asked to update a ward and to
\* delete a doctor; both requests were answered Forbidden and the stored
\* doctor is stored as it was.
C16_Witness ==
    \E r1, r2 \in Reqs :
        /\ req[r1].op = "PutWard" /\ req[r1].pc = "done"
        /\ req[r1].role = "doctor" /\ req[r1].status = 401
        /\ req[r2].op = "DeleteDoctor" /\ req[r2].pc = "done"
        /\ req[r2].role = "doctor" /\ req[r2].status = 401
        /\ Len(doctors) = 1 /\ doctors[1].id = 1

\* C17 (as claimed): an Assign Medicine or Record Doctor Visit request that
\* succeeded, and so created or modified a record, came from a caller whose
\* role is admin, doctor or staff.
C17_RecordsNeedRole ==
    \A r \in Reqs :
        (req[r].op \in {"PostAssigned", "PostVisit"} /\ req[r].pc = "done"
           /\ req[r].status = 200)
          => req[r].role \in {"admin", "doctor", "staff"}

-----------------------------------------------------------------------------
(* Update and delete *)

\* The update and delete handlers that find their target by sequential id
\* and by store key.
ByIdOps == {"PutPatient", "DeletePatient", "PutDoctor", "DeleteDoctor",
            "PutMedicine", "DeleteMedicine"}

ByKeyOps == {"PutWard", "DeleteWard", "PutVisit", "DeleteVisit",
             "PutAssigned", "DeleteAssigned"}

\* The collection an update or delete handler works on.
TargetColl(op) ==
    IF op \in {"PutPatient", "DeletePatient"} THEN patients
    ELSE IF op \in {"PutDoctor", "DeleteDoctor"} THEN doctors
    ELSE IF op \in {"PutMedicine", "DeleteMedicine"} THEN medicines
    ELSE IF op \in {"PutWard", "DeleteWard"} THEN wards
    ELSE IF op \in {"PutVisit", "DeleteVisit"} THEN visits
    ELSE assigned

\* The request's target is stored.
TargetStored(op, id) ==
    IF op \in ByIdOps THEN id \in Ids(TargetColl(op)) ELSE id \in Keys(TargetColl(op))

\* The route handed the request to its target lookup: it was not refused for
\* its role or its body before.
LooksUp(r) == Has(req'[r], "id")

stores == <<patients, doctors, medicines, assigned, wards, visits>>

\* C18: an update or delete of a Patient, Doctor, Medicine, Ward, DoctorVisit
\* or MedicineAssignment whose target is not stored when the handler looks it
\* up ends with NotFound (404) and leaves the whole store unchanged.
C18_MissingTargetNotFound ==
    [][\A r \in Reqs :
         (ArrivesIn(r, ByIdOps \cup ByKeyOps) /\ LooksUp(r)
            /\ ~TargetStored(req'[r].op, req'[r].id))
           => /\ req'[r].pc = "done" /\ req'[r].status = 404
              /\ stores' = stores]_vars

\* C18 witness: the stored doctor was deleted, and an update of the same id
\* after that ended with NotFound.
C18_Witness ==
    \E r1, r2 \in Reqs :
        /\ req[r1].op = "DeleteDoctor" /\ req[r1].pc = "done" /\ req[r1].status = 200
        /\ req[r2].op = "PutDoctor" /\ req[r2].pc = "done" /\ req[r2].status = 404
        /\ req[r1].id = req[r2].id
        /\ doctors = <<>>

UpdateOps == {"PutPatient", "PutDoctor", "PutMedicine", "PutWard", "PutVisit", "PutAssigned"}

\* The position of the handler's collection in stores.
CollNo(op) ==
    IF op = "PutPatient" THEN 1 ELSE IF op = "PutDoctor" THEN 2
    ELSE IF op = "PutMedicine" THEN 3 ELSE IF op = "PutAssigned" THEN 4
    ELSE IF op = "PutWard" THEN 5 ELSE 6

\* Request r runs the write of its update and the answer is a success.
UpdateSucceeds(r) ==
    /\ req[r].op \in UpdateOps /\ req[r].pc \in {"update", "save"}
    /\ req'[r].pc = "done" /\ req'[r].status = 200

\* The documents of coll the update of request r targets.
Targets(coll, op, id) ==
    IF op \in ByIdOps
    THEN {i \in Indices(coll) : coll[i].id = id /\ \A j \in 1..(i - 1) : coll[j].id # id}
    ELSE {i \in Indices(coll) : coll[i]._id = id}

\* C19: the write of a successful update changes, in the targeted record,
\* only fields the request payload names; every other field of it, every
\* other record of the collection and every other collection keep their
\* values.
C19_UpdateChangesOnlyPayloadFields ==
    [][\A r \in Reqs :
         UpdateSucceeds(r) =>
           LET k    == CollNo(req[r].op)
               coll == stores[k]
               now  == stores'[k]
               hit  == Targets(coll, req[r].op, req[r].id)
           IN  /\ \A c \in 1..6 : c # k => stores'[c] = stores[c]
               /\ Len(now) = Len(coll)
               /\ \A i \in Indices(coll) :
                     IF i \in hit
                     THEN \A f \in DOMAIN coll[i] \ DOMAIN req[r].body :
                            now[i][f] = coll[i][f]
                     ELSE now[i] = coll[i]]_vars

\* C19 witness: with two doctors stored, an update of doctor 1 that carries
\* charges only succeeded: its charges changed, its empId did not, and the
\* other doctor is as it was created.
C19_Witness ==
    \E r1, r2 \in Reqs :
        /\ req[r1].op = "PostDoctor" /\ req[r1].pc = "done" /\ req[r1].status = 201
        /\ req[r2].op = "PutDoctor" /\ req[r2].pc = "done" /\ req[r2].status = 200
        /\ req[r2].id = 1 /\ req[r2].body = [charges |-> 200]
        /\ Len(doctors) = 2
        /\ doctors[1].charges = 200 /\ doctors[1].empId = 1 /\ doctors[1].id = 1
        /\ doctors[2].charges = 100 /\ doctors[2].empId = req[r1].body.empId

-----------------------------------------------------------------------------
(* Validation *)

\* C20 (as claimed): a create or update that the schema validation refused
\* ended with a status of class 400.
C20_ValidationIsBadRequest ==
    \A r \in Reqs :
        (req[r].pc = "done" /\ req[r].err = "ValidationError")
          => req[r].status \in 400..499

-----------------------------------------------------------------------------
(* Wards and admissions *)

\* C21 (as claimed): the current occupancy of every stored Ward is at most its
\* maximum capacity.
C21_OccupancyWithinCapacity ==
    \A i \in Indices(wards) : wards[i].currentOccupancy <= wards[i].max_cap

\* C22: no step of a Create Patient request changes the Ward store, whether
\* or not the body names a ward and whether or not that ward is stored.
C22_CreatePatientLeavesWards ==
    [][\A r \in Reqs :
         (req'[r] # req[r] /\ req'[r].op = "PostPatient") => wards' = wards]_vars

\* C22 witness: with one ward stored, a patient was created with the wardId
\* of that ward and another with the wardId of no ward; the ward is as it was
\* created, its occupancy 0.
C22_Witness ==
    \E r1, r2 \in Reqs :
        /\ req[r1].op = "PostPatient" /\ req[r1].pc = "done" /\ req[r1].status = 201
        /\ req[r2].op = "PostPatient" /\ req[r2].pc = "done" /\ req[r2].status = 201
        /\ Len(wards) = 1 /\ wards[1].currentOccupancy = 0
        /\ Has(req[r1].body, "wardId") /\ req[r1].body.wardId = wards[1]._id
        /\ Has(req[r2].body, "wardId") /\ req[r2].body.wardId \notin Keys(wards)
        /\ \E i, j \in Indices(patients) :
              /\ patients[i].id = req[r1].data /\ patients[i].wardId = wards[1]._id
              /\ patients[j].id = req[r2].data /\ patients[j].wardId \notin Keys(wards)

-----------------------------------------------------------------------------
(* Error responses *)

\* process.env.NODE_ENV
NodeEnvs == {"production", "development"}

\* The handlers whose catch block answers
\* { success: false, message: 'Server error', error: error.message }.
MessageOps ==
    {"PostPatient", "PutPatient", "DeletePatient", "PostDoctor", "PutDoctor",
     "DeleteDoctor", "PostMedicine", "PutMedicine", "DeleteMedicine"}

\* The handlers whose catch block answers the text 'Server Error'.
FixedTextOps ==
    {"PostWard", "PutWard", "DeleteWard", "PostVisit", "PutVisit", "DeleteVisit",
     "PostAssigned", "PutAssigned", "DeleteAssigned"}

\* The text of the caught error that the response rec carries when the
\* process runs under env ("": none).  Only the error middleware of the
\* application, which gets the errors no handler caught, looks at env.
ErrorText(rec, env) ==
    IF rec.op \in MessageOps THEN rec.err
    ELSE IF rec.op \in FixedTextOps THEN ""
    ELSE IF env = "development" THEN rec.err ELSE ""

\* C23 (as claimed): in production mode no response with status 500 carries
\* the text of the error that was caught.
C23_ProductionHidesErrorText ==
    \A r \in Reqs, env \in NodeEnvs :
        (req[r].pc = "done" /\ req[r].status = 500 /\ env = "production")
          => ErrorText(req[r], env) = ""

-----------------------------------------------------------------------------
(* Payment status *)

\* Request r runs the write of a Patient update that carries a paymentStatus
\* of the enumeration, on a stored target.
PaysStored(r) ==
    /\ req[r].op = "PutPatient" /\ req[r].pc = "update" /\ req'[r].pc = "done"
    /\ Has(req[r].body, "paymentStatus")
    /\ req[r].body.paymentStatus \in PaymentStatuses
    /\ req[r].id \in Ids(patients)

\* C24: a Patient update with a paymentStatus of {pending, paid, partial}
\* succeeds and sets it whatever the stored value is; a Patient created
\* without a paymentStatus is stored with pending; and no stored Patient has
\* a paymentStatus outside the set.
C24_PaymentStatusEnumeration ==
    [][/\ \A r \in Reqs :
            /\ PaysStored(r) =>
                 /\ req'[r].status = 200
                 /\ \A i \in Indices(patients') :
                       patients'[i].id = req[r].id
                         => patients'[i].paymentStatus = req[r].body.paymentStatus
            /\ (PatientInserts(r) /\ req'[r].status = 201
                   /\ ~Has(req[r].body, "paymentStatus"))
                 => patients'[Len(patients')].paymentStatus = "pending"
       /\ \A i \in Indices(patients') :
            patients'[i].paymentStatus \in PaymentStatuses]_vars

\* C24 witness: the stored patient was set to paid and then back to pending
\* by two updates that both succeeded.
C24_Witness ==
    \E r1, r2 \in Reqs :
        /\ req[r1].op = "PutPatient" /\ req[r1].pc = "done" /\ req[r1].status = 200
        /\ req[r1].body = [paymentStatus |-> "paid"]
        /\ req[r2].op = "PutPatient" /\ req[r2].pc = "done" /\ req[r2].status = 200
        /\ req[r2].body = [paymentStatus |-> "pending"]
        /\ req[r1].id = 1 /\ req[r2].id = 1
        /\ patients[1].id = 1 /\ patients[1].paymentStatus = "pending"

-----------------------------------------------------------------------------
(* Updates and the sequential id *)

\* C25 (as claimed): after the write of a successful Patient, Doctor or
\* Medicine update whose target was stored, a record with the target's id is
\* still stored, whatever fields the payload carries.
C25_UpdateKeepsId ==
    [][\A r \in Reqs :
         (UpdateSucceeds(r) /\ req[r].op \in ByIdOps
            /\ req[r].id \in Ids(stores[CollNo(req[r].op)]))
           => req[r].id \in Ids(stores'[CollNo(req[r].op)])]_vars

-----------------------------------------------------------------------------
(* Assign Medicine: concurrent calls and updates *)

\* C26 (as claimed): among Assign Medicine requests (every slot holds one),
\* the save of a request that found an assignment for its pair and succeeded,
\* with a quantity given as a number, adds that quantity to the quantity
\* stored at that moment: no increment of another request is lost.
C26_NoLostIncrement ==
    [][\A r \in Reqs :
         (/\ AssignSaves(r) /\ req'[r].status = 200
          /\ req[r].existing # Null /\ req[r].body.medicine_qty.t = "number"
          /\ \A q \in Reqs : req[q].op = "PostAssigned")
           => \A i \in Indices(assigned) :
                assigned[i]._id = req[r].existing._id
                  => assigned'[i].medicine_qty =
                       assigned[i].medicine_qty + req[r].body.medicine_qty.v]_vars

-----------------------------------------------------------------------------
(* References of the stored records *)

\* C27 (as claimed): every stored MedicineAssignment names a stored Patient
\* and a stored Medicine, and every stored DoctorVisit names a stored Patient
\* and a stored Doctor.
C27_ReferencesStored ==
    /\ \A i \in Indices(assigned) :
          /\ assigned[i].pat_id \in Keys(patients)
          /\ assigned[i].medicine_id \in Keys(medicines)
    /\ \A i \in Indices(visits) :
          /\ visits[i].pat_id \in Keys(patients)
          /\ visits[i].doctor_id \in Keys(doctors)

-----------------------------------------------------------------------------
(* Refusals and the existence of the target *)

\* The writes whose handler tests the caller's role itself.
RoleOps ==
    {"PutWard", "DeleteWard", "PutVisit", "DeleteVisit",
     "PostAssigned", "PutAssigned", "DeleteAssigned"}

\* The role may perform the write.
Permits(op, role) ==
    IF op \in {"PutWard", "DeleteWard", "DeleteVisit"} THEN role = "admin"
    ELSE IF op = "PutVisit" THEN MayUpdateVisit(role)
    ELSE MayAssign(role)

\* C28 (as claimed): a request for one of these writes by a caller whose role
\* does not permit it ends at once with Forbidden (401), whether or not its
\* target is stored (or with 400 when the validators refuse its body, which
\* they do before anything else and without looking at the store).
C28_RefusalHidesExistence ==
    [][\A r \in Reqs :
         (ArrivesIn(r, RoleOps) /\ ~Permits(req'[r].op, req'[r].role))
           => /\ req'[r].pc = "done"
              /\ req'[r].status \in {400, 401}]_vars

-----------------------------------------------------------------------------
(* Update of a medicine assignment *)

\* Request r runs the save of an assignment update that succeeds, on the
\* assignment as it loaded it.
UpdatesLoaded(r) ==
    /\ StepsAt(r, "PutAssigned", "save") /\ req'[r].status = 200
    /\ FindById(assigned, req[r].id) = req[r].existing

\* C29: a successful update of a medicine assignment leaves the fields of
\* its payload with the values given, the quantity replaced and not added,
\* and applying the same payload to the result changes nothing; a successful
\* Assign Medicine call on a stored assignment adds its quantity (given as a
\* number) to the stored one, each time.
C29_AssignmentUpdateIdempotent ==
    [][\A r \in Reqs :
         /\ UpdatesLoaded(r) =>
              LET changed == AssignChanges(req[r].body)
                  once    == FindById(assigned', req[r].id)
              IN  /\ once # Null
                  /\ \A f \in DOMAIN changed : once[f] = changed[f]
                  /\ SaveModified(assigned', once, changed) = assigned'
         /\ (/\ AssignSaves(r) /\ req'[r].status = 200
             /\ req[r].existing # Null /\ req[r].body.medicine_qty.t = "number"
             /\ FindById(assigned, req[r].existing._id) = req[r].existing)
              => FindById(assigned', req[r].existing._id).medicine_qty =
                   req[r].existing.medicine_qty + req[r].body.medicine_qty.v]_vars

\* C29 witness: the same update, quantity 5, was applied twice to the
\* assignment stored with quantity 3, the second time on the result of the
\* first; the stored quantity is 5.
C29_Witness ==
    \E r1, r2 \in Reqs :
        /\ req[r1].op = "PutAssigned" /\ req[r1].pc = "done" /\ req[r1].status = 200
        /\ req[r2].op = "PutAssigned" /\ req[r2].pc = "done" /\ req[r2].status = 200
        /\ req[r1].id = req[r2].id /\ req[r1].body = req[r2].body
        /\ req[r1].body = [medicine_qty |-> Num(5)]
        /\ req[r1].existing.medicine_qty = 3 /\ req[r2].existing.medicine_qty = 5
        /\ Len(assigned) = 1 /\ assigned[1]._id = req[r1].id
        /\ assigned[1].medicine_qty = 5

====
